---- MODULE Spec2Model ----
(***************************************************************************)
(* RoboSim API (src/api/main.py): the Episode Dataset Compiler.            *)
(*                                                                         *)
(* Two request handlers are modelled:                                      *)
(*   upload_dataset      directory mode: validates the token, creates the  *)
(*                       repository, assembles the bundle in a temporary   *)
(*                       workspace and hands it to upload_folder;          *)
(*   convert_to_parquet  buffer mode: encodes the table and returns it.    *)
(*                                                                         *)
(* A Python dict is a function whose DOMAIN is the set of keys present.    *)
(* A table cell of a vector column is None (<<>>) or Some(v) (<<v>>).      *)
(* A timestamp is an exact ratio [num, den] of seconds.                    *)
(***************************************************************************)
EXTENDS Integers, Sequences, FiniteSets, TLC

VARIABLES
    episodes,           \* the request's episode batch (request.episodes / episodes)
    metadata,           \* request.metadata (DatasetMetadata) of upload_dataset
    pc,                 \* position of the handler that serves the request
    all_rows,           \* upload_dataset local: projected rows
    episode_metadata,   \* upload_dataset local: EpisodeMeta records
    tasks,              \* upload_dataset local: set of task strings
    tmpdir,             \* the temporary workspace: [exists, files]
    exc,                \* the exception in flight in upload_dataset
    response,           \* what upload_dataset answers
    convResponse,       \* what convert_to_parquet answers
    calls,              \* collaborator calls made so far, in order: [op, ok]
    handed,             \* the folder content upload_folder was called with
    fsops               \* filesystem operations performed so far

vars == <<episodes, metadata, pc, all_rows, episode_metadata, tasks, tmpdir,
          exc, response, convResponse, calls, handed, fsops>>

-----------------------------------------------------------------------------
(* Bounds of the explored inputs *)

MaxEpisodes == 2        \* episodes per batch
MaxFrames == 2          \* frames per batch, over all its episodes

-----------------------------------------------------------------------------
(* Python values *)

EmptyDict == [k \in {} |-> 0]
None == <<>>
Some(v) == <<v>>

Get(d, k, default) == IF k \in DOMAIN d THEN d[k] ELSE default

Ratio(n, d) == [num |-> n, den |-> d]

RECURSIVE SumSeq(_)
SumSeq(s) == IF s = <<>> THEN 0 ELSE s[1] + SumSeq(Tail(s))

-----------------------------------------------------------------------------
(* The inputs: frames, episodes, batches, dataset metadata *)

StateVec(w) == [i \in 1..w |-> i]
JointVec(w) == [i \in 1..w |-> 10 + i]
TargetVec(w) == [i \in 1..w |-> 16777216 + i]

\* Representative frame dicts: with and without a timestamp, vectors of two
\* widths, an action given by jointPositions, by targetPositions, by both or
\* not at all, a frame without observation, and one with an image.
Frames ==
    { [observation |-> [jointPositions |-> StateVec(2)],
       action |-> [jointPositions |-> JointVec(2)]],
      [timestamp |-> Ratio(7, 2),
       observation |-> [jointPositions |-> StateVec(2)],
       action |-> [jointPositions |-> JointVec(2), targetPositions |-> TargetVec(2)]],
      [observation |-> [jointPositions |-> StateVec(1)],
       action |-> [jointPositions |-> JointVec(1)]],
      [action |-> [targetPositions |-> TargetVec(2)]],
      [timestamp |-> Ratio(7, 2),
       observation |-> [jointPositions |-> StateVec(2), image |-> "png"],
       action |-> EmptyDict] }

\* An episode as it arrives, before its frames: episodeIndex is not checked
\* for uniqueness, languageInstruction is optional
EpisodeHeads ==
    { [episodeIndex |-> 0, frames |-> <<>>, metadata |-> EmptyDict],
      [episodeIndex |-> 1, frames |-> <<>>,
       metadata |-> [languageInstruction |-> "pick up the cube"]] }

DatasetMetadatas ==
    { [robotType |-> "so-101", totalFrames |-> 0, totalEpisodes |-> 0, fps |-> 30],
      [robotType |-> "so-101", totalFrames |-> 7, totalEpisodes |-> 7, fps |-> 10] }

-----------------------------------------------------------------------------
(* Row Projector *)

DEFAULT_TASK == "manipulation task"

TaskOf(episode) == Get(episode.metadata, "languageInstruction", DEFAULT_TASK)

\* Mutant: the length is taken as the index of the last frame
EpisodeMetaOf_LastIndex(episode) ==
    [episode_index |-> episode.episodeIndex,
     tasks |-> <<TaskOf(episode)>>,
     length |-> IF episode.frames = <<>> THEN 0 ELSE Len(episode.frames) - 1]

\* Mutant: every record is given episode_index 0
EpisodeMetaOf_IndexZero(episode) ==
    [episode_index |-> 0,
     tasks |-> <<TaskOf(episode)>>,
     length |-> Len(episode.frames)]

EpisodeMetaOf(episode) ==
    [episode_index |-> episode.episodeIndex,
     tasks |-> <<TaskOf(episode)>>,
     length |-> Len(episode.frames)]

\* Mutant: targetPositions is preferred to jointPositions
UploadRow_TargetFirst(ep_idx, frame_idx, frame) ==
    LET obs == Get(frame, "observation", EmptyDict)
        action == Get(frame, "action", EmptyDict)
        row == [episode_index |-> ep_idx,
                frame_index |-> frame_idx,
                timestamp |-> Get(frame, "timestamp", Ratio(frame_idx, 30)),
                task_index |-> 0]
        state == IF "jointPositions" \in DOMAIN obs
                 THEN "observation.state" :> obs["jointPositions"] ELSE EmptyDict
        image == IF "image" \in DOMAIN obs
                 THEN "observation.image" :> obs["image"] ELSE EmptyDict
        act == IF "targetPositions" \in DOMAIN action
               THEN "action" :> action["targetPositions"]
               ELSE IF "jointPositions" \in DOMAIN action
                    THEN "action" :> action["jointPositions"] ELSE EmptyDict
    IN  row @@ state @@ image @@ act

\* Mutant: the default timestamp is taken at the declared fps
UploadRow_DeclaredFps(ep_idx, frame_idx, frame) ==
    LET obs == Get(frame, "observation", EmptyDict)
        action == Get(frame, "action", EmptyDict)
        row == [episode_index |-> ep_idx,
                frame_index |-> frame_idx,
                timestamp |-> Get(frame, "timestamp", Ratio(frame_idx, metadata.fps)),
                task_index |-> 0]
        state == IF "jointPositions" \in DOMAIN obs
                 THEN "observation.state" :> obs["jointPositions"] ELSE EmptyDict
        image == IF "image" \in DOMAIN obs
                 THEN "observation.image" :> obs["image"] ELSE EmptyDict
        act == IF "jointPositions" \in DOMAIN action
               THEN "action" :> action["jointPositions"]
               ELSE IF "targetPositions" \in DOMAIN action
                    THEN "action" :> action["targetPositions"] ELSE EmptyDict
    IN  row @@ state @@ image @@ act

\* Mutant: the task index of a row is that of its episode
UploadRow_TaskPerEpisode(ep_idx, frame_idx, frame) ==
    LET obs == Get(frame, "observation", EmptyDict)
        action == Get(frame, "action", EmptyDict)
        row == [episode_index |-> ep_idx,
                frame_index |-> frame_idx,
                timestamp |-> Get(frame, "timestamp", Ratio(frame_idx, 30)),
                task_index |-> ep_idx]
        state == IF "jointPositions" \in DOMAIN obs
                 THEN "observation.state" :> obs["jointPositions"] ELSE EmptyDict
        image == IF "image" \in DOMAIN obs
                 THEN "observation.image" :> obs["image"] ELSE EmptyDict
        act == IF "jointPositions" \in DOMAIN action
               THEN "action" :> action["jointPositions"]
               ELSE IF "targetPositions" \in DOMAIN action
                    THEN "action" :> action["targetPositions"] ELSE EmptyDict
    IN  row @@ state @@ image @@ act

\* frame_idx is 0-based (enumerate)
UploadRow(ep_idx, frame_idx, frame) ==
    LET obs == Get(frame, "observation", EmptyDict)
        action == Get(frame, "action", EmptyDict)
        row == [episode_index |-> ep_idx,
                frame_index |-> frame_idx,
                timestamp |-> Get(frame, "timestamp", Ratio(frame_idx, 30)),
                task_index |-> 0]
        state == IF "jointPositions" \in DOMAIN obs
                 THEN "observation.state" :> obs["jointPositions"] ELSE EmptyDict
        image == IF "image" \in DOMAIN obs
                 THEN "observation.image" :> obs["image"] ELSE EmptyDict
        act == IF "jointPositions" \in DOMAIN action
               THEN "action" :> action["jointPositions"]
               ELSE IF "targetPositions" \in DOMAIN action
                    THEN "action" :> action["targetPositions"] ELSE EmptyDict
    IN  row @@ state @@ image @@ act

ConvertRow(ep_idx, frame_idx, frame) ==
    LET obs == Get(frame, "observation", EmptyDict)
        action == Get(frame, "action", EmptyDict)
        row == [episode_index |-> ep_idx,
                frame_index |-> frame_idx,
                timestamp |-> Get(frame, "timestamp", Ratio(frame_idx, 30))]
        state == IF "jointPositions" \in DOMAIN obs
                 THEN "observation.state" :> obs["jointPositions"] ELSE EmptyDict
        act == IF "jointPositions" \in DOMAIN action
               THEN "action" :> action["jointPositions"] ELSE EmptyDict
    IN  row @@ state @@ act

\* Mutant: the frame index is taken 1-based
UploadEpisodeRows_OneBased(episode) ==
    [k \in 1..Len(episode.frames) |->
        UploadRow(episode.episodeIndex, k, episode.frames[k])]

UploadEpisodeRows(episode) ==
    [k \in 1..Len(episode.frames) |->
        UploadRow(episode.episodeIndex, k - 1, episode.frames[k])]

ConvertEpisodeRows(episode) ==
    [k \in 1..Len(episode.frames) |->
        ConvertRow(episode.episodeIndex, k - 1, episode.frames[k])]

RECURSIVE UploadRows(_)
UploadRows(eps) ==
    IF eps = <<>> THEN <<>> ELSE UploadEpisodeRows(eps[1]) \o UploadRows(Tail(eps))

RECURSIVE ConvertRows(_)
ConvertRows(eps) ==
    IF eps = <<>> THEN <<>> ELSE ConvertEpisodeRows(eps[1]) \o ConvertRows(Tail(eps))

-----------------------------------------------------------------------------
(* Schema Inference Engine and Columnar Encoder *)

Int64 == [kind |-> "int64", list_size |-> -1]
Float64 == [kind |-> "double", list_size |-> -1]
FixedSizeList(w) == [kind |-> "fixed_size_list<float32>", list_size |-> w]
ListOfDouble == [kind |-> "list<double>", list_size |-> -1]

Field(name, type) == [name |-> name, type |-> type]

VectorFields == {"observation.state", "action"}

\* Narrowing of a non-negative whole number below 2^25 to float32 (24-bit
\* significand, round half to even)
F32(v) ==
    IF v <= 16777216 THEN v
    ELSE LET q == v \div 2
         IN  IF v % 2 = 0 THEN v
             ELSE IF q % 2 = 0 THEN 2 * q ELSE 2 * q + 2

\* upload_dataset: the schema is read off the first row
schema_fields(rows) ==
    LET sample_row == rows[1]
    IN  << Field("episode_index", Int64), Field("frame_index", Int64),
           Field("timestamp", Float64), Field("task_index", Int64) >>
        \o (IF "observation.state" \in DOMAIN sample_row
            THEN <<Field("observation.state",
                         FixedSizeList(Len(sample_row["observation.state"])))>>
            ELSE <<>>)
        \o (IF "action" \in DOMAIN sample_row
            THEN <<Field("action", FixedSizeList(Len(sample_row["action"])))>>
            ELSE <<>>)

\* upload_dataset: one column of the row-to-column conversion; a list value is
\* kept as a list of floats, a missing field becomes None
UploadColumn(rows, field_name) ==
    [r \in 1..Len(rows) |->
        IF field_name \in DOMAIN rows[r]
        THEN IF field_name \in VectorFields
             THEN Some(rows[r][field_name])
             ELSE rows[r][field_name]
        ELSE None]

\* Mutant: an item of another length is accepted
ArrayFits_AnyLength(values, type) == TRUE

\* pa.array(values, type=fixed_size_list): every non-null item must have
\* exactly list_size elements, else ArrowInvalid
ArrayFits(values, type) ==
    type.kind = "fixed_size_list<float32>" =>
        \A r \in 1..Len(values) :
            values[r] # None => Len(values[r][1]) = type.list_size

\* pa.array(values, type): the typed array; float32 items are narrowed
PaArray(values, type) ==
    IF type.kind = "fixed_size_list<float32>"
    THEN [r \in 1..Len(values) |->
            IF values[r] = None THEN None
            ELSE Some([i \in 1..Len(values[r][1]) |-> F32(values[r][1][i])])]
    ELSE values

Names(fields) == {fields[i].name : i \in 1..Len(fields)}

TypeOf(fields, name) ==
    fields[CHOOSE i \in 1..Len(fields) : fields[i].name = name].type

\* The table upload_dataset builds from a non-empty row list:
\* [ok |-> FALSE] when pa.array raises, else the table
UploadTable(rows) ==
    LET fields == schema_fields(rows)
        columns == [n \in Names(fields) |-> UploadColumn(rows, n)]
    IN  IF \A n \in Names(fields) : ArrayFits(columns[n], TypeOf(fields, n))
        THEN [ok |-> TRUE,
              schema |-> fields,
              columns |-> [n \in Names(fields) |->
                              PaArray(columns[n], TypeOf(fields, n))],
              num_rows |-> Len(rows)]
        ELSE [ok |-> FALSE, error |-> "ArrowInvalid"]

\* convert_to_parquet: the columns dict; the vector columns exist when the
\* first row has them, and a row without the field contributes []
ConvertColumns(rows) ==
    LET base == [n \in {"episode_index", "frame_index", "timestamp"} |->
                    [r \in 1..Len(rows) |-> rows[r][n]]]
        state == IF "observation.state" \in DOMAIN rows[1]
                 THEN "observation.state" :>
                        [r \in 1..Len(rows) |->
                            Some(Get(rows[r], "observation.state", <<>>))]
                 ELSE EmptyDict
        act == IF "action" \in DOMAIN rows[1]
               THEN "action" :>
                      [r \in 1..Len(rows) |-> Some(Get(rows[r], "action", <<>>))]
               ELSE EmptyDict
    IN  base @@ state @@ act

\* pa.table(columns): the types are inferred, a column of lists becomes a
\* variable-length list<double>, of any item lengths
ConvertSchema(rows) ==
    << Field("episode_index", Int64), Field("frame_index", Int64),
       Field("timestamp", Float64) >>
    \o (IF "observation.state" \in DOMAIN rows[1]
        THEN <<Field("observation.state", ListOfDouble)>> ELSE <<>>)
    \o (IF "action" \in DOMAIN rows[1]
        THEN <<Field("action", ListOfDouble)>> ELSE <<>>)

ConvertTable(rows) ==
    [ok |-> TRUE,
     schema |-> ConvertSchema(rows),
     columns |-> ConvertColumns(rows),
     num_rows |-> Len(rows)]

-----------------------------------------------------------------------------
(* Metadata Assembler: the content of the bundle files *)

PARQUET_PATH == "data/train-00000-of-00001.parquet"
INFO_PATH == "meta/info.json"
EPISODES_PATH == "meta/episodes.jsonl"
TASKS_PATH == "meta/tasks.jsonl"
README_PATH == "README.md"

JOINT_NAMES == <<"joint_1", "joint_2", "joint_3", "joint_4", "joint_5", "gripper">>

TotalFrames(eps) == SumSeq([i \in 1..Len(eps) |-> Len(eps[i].frames)])

FeatureShape(rows, name) ==
    IF rows # <<>> THEN <<Len(Get(rows[1], name, <<>>))>> ELSE <<6>>

\* Mutant: the counts are copied from the declared dataset metadata
Info_Declared(eps, md, rows) ==
    [codebase_version |-> "v3.0",
     robot_type |-> md.robotType,
     fps |-> md.fps,
     total_episodes |-> md.totalEpisodes,
     total_frames |-> md.totalFrames,
     features |->
        [n \in VectorFields |->
            [dtype |-> "float32", shape |-> FeatureShape(rows, n), names |-> JOINT_NAMES]],
     splits |-> [train |-> <<0, md.totalEpisodes>>]]

Info(eps, md, rows) ==
    [codebase_version |-> "v3.0",
     robot_type |-> md.robotType,
     fps |-> md.fps,
     total_episodes |-> Len(eps),
     total_frames |-> TotalFrames(eps),
     features |->
        [n \in VectorFields |->
            [dtype |-> "float32", shape |-> FeatureShape(rows, n), names |-> JOINT_NAMES]],
     splits |-> [train |-> <<0, Len(eps)>>]]

\* The orders a set can be enumerated in
Enumerations(S) ==
    {f \in [1..Cardinality(S) -> S] : \A i, j \in DOMAIN f : i # j => f[i] # f[j]}

\* Mutant: the index is the 1-based position in the enumeration
TaskLines_OneBased(enum) == [i \in DOMAIN enum |-> [task_index |-> i, task |-> enum[i]]]

\* enumerate(tasks): the index is the 0-based position in the enumeration
TaskLines(enum) == [i \in DOMAIN enum |-> [task_index |-> i - 1, task |-> enum[i]]]

Readme(eps, md, repo_id) ==
    [robot_type |-> md.robotType,
     total_episodes |-> Len(eps),
     total_frames |-> TotalFrames(eps),
     fps |-> md.fps,
     repo_id |-> repo_id]

USERNAME == "user"
REPO_NAME == "demo"
repo_id == <<USERNAME, REPO_NAME>>

-----------------------------------------------------------------------------
(* Exceptions and responses *)

NoException == [type |-> "none", status_code |-> 0, detail |-> ""]
HTTPException(status_code, detail) ==
    [type |-> "HTTPException", status_code |-> status_code, detail |-> detail]
Exception(detail) == [type |-> "Exception", status_code |-> 0, detail |-> detail]

NoResponse == [status_code |-> 0]

\* A call of a collaborator (the Hub) and whether it returned or raised
Call(op, ok) == [op |-> op, ok |-> ok]

NoTmpDir == [exists |-> FALSE, files |-> EmptyDict]

-----------------------------------------------------------------------------
(* The state before a request is served *)

Init ==
    /\ episodes = <<>>
    /\ metadata \in DatasetMetadatas
    /\ pc = "start"
    /\ all_rows = <<>>
    /\ episode_metadata = <<>>
    /\ tasks = {}
    /\ tmpdir = NoTmpDir
    /\ exc = NoException
    /\ response = NoResponse
    /\ convResponse = NoResponse
    /\ calls = <<>>
    /\ handed = EmptyDict
    /\ fsops = {}

-----------------------------------------------------------------------------
(* The request body: a list of Episode, each with a list of frame dicts *)

ReceiveEpisode ==
    /\ pc = "start"
    /\ Len(episodes) < MaxEpisodes
    /\ \E head \in EpisodeHeads : episodes' = Append(episodes, head)
    /\ UNCHANGED <<metadata, pc, all_rows, episode_metadata, tasks, tmpdir, exc,
                   response, convResponse, calls, handed, fsops>>

ReceiveFrame ==
    /\ pc = "start"
    /\ episodes # <<>>
    /\ TotalFrames(episodes) < MaxFrames
    /\ \E frame \in Frames :
        episodes' = [episodes EXCEPT ![Len(episodes)].frames = Append(@, frame)]
    /\ UNCHANGED <<metadata, pc, all_rows, episode_metadata, tasks, tmpdir, exc,
                   response, convResponse, calls, handed, fsops>>

-----------------------------------------------------------------------------
(* upload_dataset, statement by statement *)

\* Mutant: a failed whoami is noted but the handler goes on
Whoami_GoesOn ==
    /\ pc = "start"
    /\ \E ok \in BOOLEAN :
        /\ calls' = Append(calls, Call("whoami", ok))
        /\ pc' = "create_repo"
        /\ exc' = exc
    /\ UNCHANGED <<episodes, metadata, all_rows, episode_metadata, tasks, tmpdir,
                   response, convResponse, handed, fsops>>

\* hf_api.whoami(): the token is validated before anything else
Whoami ==
    /\ pc = "start"
    /\ \E ok \in BOOLEAN :
        /\ calls' = Append(calls, Call("whoami", ok))
        /\ IF ok
           THEN /\ pc' = "create_repo"
                /\ exc' = exc
           ELSE /\ pc' = "except"
                /\ exc' = HTTPException(401, "Invalid HuggingFace token")
    /\ UNCHANGED <<episodes, metadata, all_rows, episode_metadata, tasks, tmpdir,
                   response, convResponse, handed, fsops>>

\* create_repo(..., exist_ok=True)
CreateRepo ==
    /\ pc = "create_repo"
    /\ \E ok \in BOOLEAN :
        /\ calls' = Append(calls, Call("create_repo", ok))
        /\ IF ok
           THEN /\ pc' = "tmpdir"
                /\ exc' = exc
           ELSE /\ pc' = "except"
                /\ exc' = HTTPException(500, "Failed to create repo")
    /\ UNCHANGED <<episodes, metadata, all_rows, episode_metadata, tasks, tmpdir,
                   response, convResponse, handed, fsops>>

\* with tempfile.TemporaryDirectory(): the workspace and its two directories
\* are created, then the episodes are projected to rows
EnterTmpDir ==
    /\ pc = "tmpdir"
    /\ tmpdir' = [exists |-> TRUE, files |-> EmptyDict]
    /\ fsops' = fsops \cup {"mkdtemp", "mkdir data", "mkdir meta"}
    /\ all_rows' = UploadRows(episodes)
    /\ episode_metadata' = [i \in 1..Len(episodes) |-> EpisodeMetaOf(episodes[i])]
    /\ tasks' = {TaskOf(episodes[i]) : i \in 1..Len(episodes)}
    /\ pc' = "parquet"
    /\ UNCHANGED <<episodes, metadata, exc, response, convResponse, calls, handed>>

\* Mutant: a failed write is passed over and the handler goes on
WriteFile_GoesOn(path, content, next) ==
    /\ fsops' = fsops \cup {path}
    /\ \E ok \in BOOLEAN :
        tmpdir' = IF ok THEN [tmpdir EXCEPT !.files = (path :> content) @@ @]
                  ELSE tmpdir
    /\ pc' = next
    /\ exc' = exc

\* A file write in the workspace: it succeeds, or raises OSError
WriteFile(path, content, next) ==
    /\ fsops' = fsops \cup {path}
    /\ \E ok \in BOOLEAN :
        IF ok
        THEN /\ tmpdir' = [tmpdir EXCEPT !.files = (path :> content) @@ @]
             /\ pc' = next
             /\ exc' = exc
        ELSE /\ tmpdir' = tmpdir
             /\ pc' = "exit_tmpdir"
             /\ exc' = Exception("OSError")

\* if all_rows: build the table and write the data shard
WriteParquet ==
    /\ pc = "parquet"
    /\ IF all_rows = <<>>
       THEN /\ pc' = "info"
            /\ UNCHANGED <<tmpdir, exc, fsops>>
       ELSE LET table == UploadTable(all_rows)
            IN  IF table.ok
                THEN WriteFile(PARQUET_PATH, table, "info")
                ELSE /\ pc' = "exit_tmpdir"
                     /\ exc' = Exception(table.error)
                     /\ UNCHANGED <<tmpdir, fsops>>
    /\ UNCHANGED <<episodes, metadata, all_rows, episode_metadata, tasks,
                   response, convResponse, calls, handed>>

WriteInfo ==
    /\ pc = "info"
    /\ WriteFile(INFO_PATH, Info(episodes, metadata, all_rows), "episodes")
    /\ UNCHANGED <<episodes, metadata, all_rows, episode_metadata, tasks,
                   response, convResponse, calls, handed>>

WriteEpisodes ==
    /\ pc = "episodes"
    /\ WriteFile(EPISODES_PATH, episode_metadata, "tasks")
    /\ UNCHANGED <<episodes, metadata, all_rows, episode_metadata, tasks,
                   response, convResponse, calls, handed>>

\* for i, task in enumerate(tasks): a set is enumerated in an arbitrary order
WriteTasks ==
    /\ pc = "tasks"
    /\ \E enum \in Enumerations(tasks) :
        WriteFile(TASKS_PATH, TaskLines(enum), "readme")
    /\ UNCHANGED <<episodes, metadata, all_rows, episode_metadata, tasks,
                   response, convResponse, calls, handed>>

\* Mutant: upload_folder is called before the README is written
WriteReadme_AfterUpload ==
    /\ pc = "readme"
    /\ pc' = "upload"
    /\ UNCHANGED <<episodes, metadata, all_rows, episode_metadata, tasks, tmpdir,
                   exc, response, convResponse, calls, handed, fsops>>

WriteReadme ==
    /\ pc = "readme"
    /\ WriteFile(README_PATH, Readme(episodes, metadata, repo_id), "upload")
    /\ UNCHANGED <<episodes, metadata, all_rows, episode_metadata, tasks,
                   response, convResponse, calls, handed>>

\* hf_api.upload_folder(folder_path=tmpdir, ...): the last statement of the
\* with block
UploadFolder ==
    /\ pc = "upload"
    /\ handed' = tmpdir.files
    /\ pc' = "exit_tmpdir"
    /\ \E ok \in BOOLEAN :
        /\ calls' = Append(calls, Call("upload_folder", ok))
        /\ exc' = IF ok THEN exc ELSE Exception("HfHubHTTPError")
    /\ UNCHANGED <<episodes, metadata, all_rows, episode_metadata, tasks, tmpdir,
                   response, convResponse, fsops>>

\* Mutant: the workspace is removed only when the with block ends normally
ExitTmpDir_OnSuccessOnly ==
    /\ pc = "exit_tmpdir"
    /\ tmpdir' = IF exc = NoException THEN NoTmpDir ELSE tmpdir
    /\ fsops' = IF exc = NoException THEN fsops \cup {"rmtree"} ELSE fsops
    /\ pc' = IF exc = NoException THEN "return" ELSE "except"
    /\ UNCHANGED <<episodes, metadata, all_rows, episode_metadata, tasks, exc,
                   response, convResponse, calls, handed>>

\* TemporaryDirectory.__exit__: runs when the with block is left, normally or
\* by an exception, and removes the workspace with everything in it
ExitTmpDir ==
    /\ pc = "exit_tmpdir"
    /\ tmpdir' = NoTmpDir
    /\ fsops' = fsops \cup {"rmtree"}
    /\ pc' = IF exc = NoException THEN "return" ELSE "except"
    /\ UNCHANGED <<episodes, metadata, all_rows, episode_metadata, tasks, exc,
                   response, convResponse, calls, handed>>

Return ==
    /\ pc = "return"
    /\ response' = [status_code |-> 200, success |-> TRUE, repoUrl |-> repo_id,
                    message |-> Len(episodes)]
    /\ pc' = "done"
    /\ UNCHANGED <<episodes, metadata, all_rows, episode_metadata, tasks, tmpdir,
                   exc, convResponse, calls, handed, fsops>>

\* except HTTPException: raise / except Exception as e: raise HTTPException(500)
UploadExcept(e) ==
    IF e.type = "HTTPException" THEN e ELSE HTTPException(500, e.detail)

Except ==
    /\ pc = "except"
    /\ response' = [status_code |-> UploadExcept(exc).status_code,
                    detail |-> UploadExcept(exc).detail]
    /\ pc' = "done"
    /\ UNCHANGED <<episodes, metadata, all_rows, episode_metadata, tasks, tmpdir,
                   exc, convResponse, calls, handed, fsops>>

-----------------------------------------------------------------------------
(* convert_to_parquet, the whole handler *)

\* except Exception as e: raise HTTPException(500): the only except clause;
\* HTTPException is a subclass of Exception
ConvertExcept(e) == HTTPException(500, e.detail)

ConvertToParquet ==
    /\ pc = "start"
    /\ LET rows == ConvertRows(episodes)
       IN  IF rows = <<>>
           THEN LET e == ConvertExcept(HTTPException(400, "No frames to convert"))
                IN  convResponse' = [status_code |-> e.status_code, detail |-> e.detail]
           ELSE convResponse' = [status_code |-> 200, success |-> TRUE,
                                 table |-> ConvertTable(rows),
                                 num_rows |-> Len(rows)]
    /\ pc' = "done"
    /\ UNCHANGED <<episodes, metadata, all_rows, episode_metadata, tasks, tmpdir,
                   exc, response, calls, handed, fsops>>

-----------------------------------------------------------------------------

Next ==
    \/ ReceiveEpisode
    \/ ReceiveFrame
    \/ Whoami
    \/ CreateRepo
    \/ EnterTmpDir
    \/ WriteParquet
    \/ WriteInfo
    \/ WriteEpisodes
    \/ WriteTasks
    \/ WriteReadme
    \/ UploadFolder
    \/ ExitTmpDir
    \/ Return
    \/ Except
    \/ ConvertToParquet

Spec == Init /\ [][Next]_vars

-----------------------------------------------------------------------------
(* What the claims speak of *)

Called(op) == \E i \in 1..Len(calls) : calls[i].op = op
Failed(op) == \E i \in 1..Len(calls) : calls[i] = Call(op, FALSE)

UploadDone == pc = "done" /\ response # NoResponse
UploadSucceeded == UploadDone /\ response.status_code = 200
ConvertDone == pc = "done" /\ convResponse # NoResponse

\* The number of rows before the rows of the episode at position i
Offset(i) == SumSeq([j \in 1..(i - 1) |-> Len(episodes[j].frames)])

\* The directory-mode tables there are to look at: the shard in the
\* workspace and the shard handed to upload_folder
DirTables ==
    (IF PARQUET_PATH \in DOMAIN tmpdir.files THEN {tmpdir.files[PARQUET_PATH]} ELSE {})
    \cup (IF PARQUET_PATH \in DOMAIN handed THEN {handed[PARQUET_PATH]} ELSE {})

LengthSum(metas) == SumSeq([i \in 1..Len(metas) |-> metas[i].length])

\* C1: in directory mode, for every batch with at least one frame that
\* compiles and uploads successfully, the lengths of the EpisodeMeta records
\* sum to info.total_frames, which is the number of rows of the encoded
\* table and the length of every one of its columns.
C1_FrameCountsAgree ==
    (UploadSucceeded /\ TotalFrames(episodes) > 0) =>
        /\ {PARQUET_PATH, INFO_PATH, EPISODES_PATH} \subseteq DOMAIN handed
        /\ LengthSum(handed[EPISODES_PATH]) = handed[INFO_PATH].total_frames
        /\ handed[INFO_PATH].total_frames = handed[PARQUET_PATH].num_rows
        /\ \A n \in DOMAIN handed[PARQUET_PATH].columns :
              Len(handed[PARQUET_PATH].columns[n]) = handed[INFO_PATH].total_frames

\* C1 witness: a successful upload of two episodes of one frame each
C1_Witness ==
    /\ UploadSucceeded
    /\ Len(episodes) = 2
    /\ \A i \in 1..2 : Len(episodes[i].frames) = 1
    /\ handed[PARQUET_PATH].num_rows = 2

-----------------------------------------------------------------------------
(* What a frame supplies, read off the frame dict *)

FrameTimestamp(frame, k) ==
    IF "timestamp" \in DOMAIN frame THEN frame["timestamp"] ELSE Ratio(k, 30)

HasKey(frame, outer, inner) ==
    outer \in DOMAIN frame /\ inner \in DOMAIN frame[outer]

\* observation.state of a frame, as a cell: None when the frame has none
FrameState(frame) ==
    IF HasKey(frame, "observation", "jointPositions")
    THEN Some(frame["observation"]["jointPositions"]) ELSE None

\* action of a frame in directory mode: jointPositions, else targetPositions
FrameActionUpload(frame) ==
    IF HasKey(frame, "action", "jointPositions")
    THEN Some(frame["action"]["jointPositions"])
    ELSE IF HasKey(frame, "action", "targetPositions")
         THEN Some(frame["action"]["targetPositions"]) ELSE None

\* action of a frame in buffer mode: jointPositions only
FrameActionConvert(frame) ==
    IF HasKey(frame, "action", "jointPositions")
    THEN Some(frame["action"]["jointPositions"]) ELSE None

Narrowed(cell) ==
    IF cell = None THEN None ELSE Some([i \in DOMAIN cell[1] |-> F32(cell[1][i])])

OrEmptyList(cell) == IF cell = None THEN Some(<<>>) ELSE cell

\* The positions (episode position, 0-based frame index) of the batch
Positions ==
    {p \in (1..Len(episodes)) \X (0..(MaxFrames - 1)) :
        p[2] < Len(episodes[p[1]].frames)}

RowsOf(t, ep_idx, k) ==
    {r \in 1..t.num_rows :
        t.columns["episode_index"][r] = ep_idx /\ t.columns["frame_index"][r] = k}

\* Row Offset(i)+k+1 of table t is the row of frame k of the episode at i
ScalarsInOrder(t) ==
    /\ t.num_rows = TotalFrames(episodes)
    /\ \A p \in Positions :
        LET r == Offset(p[1]) + p[2] + 1
            frame == episodes[p[1]].frames[p[2] + 1]
        IN  /\ t.columns["episode_index"][r] = episodes[p[1]].episodeIndex
            /\ t.columns["frame_index"][r] = p[2]
            /\ t.columns["timestamp"][r] = FrameTimestamp(frame, p[2])

\* As many rows carry an (episode_index, frame_index) pair as episodes of
\* that episodeIndex have such a frame
PairCounts(t) ==
    \A p \in Positions :
        Cardinality(RowsOf(t, episodes[p[1]].episodeIndex, p[2])) =
        Cardinality({q \in Positions :
            q[2] = p[2] /\ episodes[q[1]].episodeIndex = episodes[p[1]].episodeIndex})

UploadVectorsInOrder(t) ==
    \A p \in Positions :
        LET r == Offset(p[1]) + p[2] + 1
            frame == episodes[p[1]].frames[p[2] + 1]
        IN  /\ "observation.state" \in DOMAIN t.columns =>
                t.columns["observation.state"][r] = Narrowed(FrameState(frame))
            /\ "action" \in DOMAIN t.columns =>
                t.columns["action"][r] = Narrowed(FrameActionUpload(frame))

ConvertVectorsInOrder(t) ==
    \A p \in Positions :
        LET r == Offset(p[1]) + p[2] + 1
            frame == episodes[p[1]].frames[p[2] + 1]
        IN  /\ "observation.state" \in DOMAIN t.columns =>
                t.columns["observation.state"][r] = OrEmptyList(FrameState(frame))
            /\ "action" \in DOMAIN t.columns =>
                t.columns["action"][r] = OrEmptyList(FrameActionConvert(frame))

\* The vector columns of a table are those the first row of the batch has
FirstFrame ==
    LET first == CHOOSE i \in 1..Len(episodes) :
                    Offset(i) = 0 /\ episodes[i].frames # <<>>
    IN  episodes[first].frames[1]

ColumnsFromFirstRow(t, action) ==
    /\ ("observation.state" \in DOMAIN t.columns) = (FrameState(FirstFrame) # None)
    /\ ("action" \in DOMAIN t.columns) = (action # None)

\* C2 (as amended): in both modes, whenever a table is built, rows are
\* emitted in (episode, frame) input order: the row at position (frames of
\* the episodes before i) + k is the row of frame k of episode i, with
\* frame_index = k, that episode's episode_index and that frame's timestamp;
\* an (episode_index, frame_index) pair is carried by one row per episode
\* of that episodeIndex having such a frame (exactly one when the
\* episodeIndex values are distinct); the vector columns that exist are
\* those the first row of the batch has, and in such a column the cell is
\* the frame's own vector, or null (directory mode) or [] (buffer mode) when
\* the frame has none.
C2_RowsInInputOrder ==
    /\ \A t \in DirTables :
        /\ ScalarsInOrder(t)
        /\ PairCounts(t)
        /\ ColumnsFromFirstRow(t, FrameActionUpload(FirstFrame))
        /\ UploadVectorsInOrder(t)
    /\ (ConvertDone /\ convResponse.status_code = 200) =>
        /\ ScalarsInOrder(convResponse.table)
        /\ PairCounts(convResponse.table)
        /\ ColumnsFromFirstRow(convResponse.table, FrameActionConvert(FirstFrame))
        /\ ConvertVectorsInOrder(convResponse.table)

\* C2 witness: a two-episode batch whose second episode has a vector the
\* first row lacks, encoded by both modes
C2_Witness ==
    /\ Len(episodes) = 2
    /\ \A i \in 1..2 : Len(episodes[i].frames) = 1
    /\ FrameState(episodes[1].frames[1]) = None
    /\ FrameState(episodes[2].frames[1]) # None
    /\ \/ DirTables # {}
       \/ ConvertDone /\ convResponse.status_code = 200

\* The table a mode builds from one episode on its own
UploadAlone(episode) == UploadTable(UploadRows(<<episode>>))
ConvertAlone(episode) == ConvertTable(ConvertRows(<<episode>>))

RowAsAlone(t, alone, r, k) ==
    /\ DOMAIN t.columns = DOMAIN alone.columns
    /\ \A n \in DOMAIN t.columns : t.columns[n][r] = alone.columns[n][k + 1]

\* C2 (as stated): for every episode at position i and every frame at
\* position k the table has exactly one row with frame_index = k and that
\* episode's episode_index, placed after the rows of the episodes before i
\* and of the frames before k, and its values are those the episode yields
\* on its own, whatever the other episodes contain.
C2_AsStated ==
    /\ \A t \in DirTables : \A p \in Positions :
        /\ RowsOf(t, episodes[p[1]].episodeIndex, p[2]) = {Offset(p[1]) + p[2] + 1}
        /\ RowAsAlone(t, UploadAlone(episodes[p[1]]), Offset(p[1]) + p[2] + 1, p[2])
    /\ (ConvertDone /\ convResponse.status_code = 200) =>
        \A p \in Positions :
            /\ RowsOf(convResponse.table, episodes[p[1]].episodeIndex, p[2])
                  = {Offset(p[1]) + p[2] + 1}
            /\ RowAsAlone(convResponse.table, ConvertAlone(episodes[p[1]]),
                          Offset(p[1]) + p[2] + 1, p[2])

\* C3: both modes build the same table from the same batch: whenever buffer
\* mode returns a table, directory mode's table for that batch has the same
\* columns, the same column kinds and the same values in every row.
C3_ModesEncodeAlike ==
    (ConvertDone /\ convResponse.status_code = 200) =>
        LET upload == UploadTable(UploadRows(episodes))
        IN  /\ upload.ok
            /\ upload.schema = convResponse.table.schema
            /\ upload.columns = convResponse.table.columns

\* What directory mode reads as a frame's vector for a column
UploadVector(frame, column) ==
    IF column = "action" THEN FrameActionUpload(frame) ELSE FrameState(frame)

\* Some frame after the first supplies the column's vector with another
\* width than the first frame's
OtherWidth(column) ==
    /\ UploadVector(FirstFrame, column) # None
    /\ \E p \in Positions :
        LET cell == UploadVector(episodes[p[1]].frames[p[2] + 1], column)
        IN  cell # None /\ Len(cell[1]) # Len(UploadVector(FirstFrame, column)[1])

UploadWidthMismatch ==
    /\ TotalFrames(episodes) > 0
    /\ OtherWidth("observation.state") \/ OtherWidth("action")

\* C4: in directory mode, when the first frame of the batch has an action
\* (or observation.state) vector of width W and a later frame supplies that
\* field with another width, the request ends with an error: no data shard
\* is written (so no truncated or padded vector is stored), no later file of
\* the bundle is reached, and upload_folder is never called.
C4_WidthMismatchFails ==
    UploadWidthMismatch =>
        /\ PARQUET_PATH \notin fsops
        /\ DirTables = {}
        /\ ~Called("upload_folder")
        /\ pc \notin {"info", "episodes", "tasks", "readme", "upload", "return"}
        /\ UploadDone => response.status_code \in {401, 500}

\* C4 witness: the encoder has refused a batch whose second frame has a
\* narrower action vector than the first, and the request ended with 500
C4_Witness ==
    /\ UploadDone
    /\ UploadWidthMismatch
    /\ OtherWidth("action")
    /\ exc = Exception("ArrowInvalid")
    /\ response.status_code = 500

\* A row of buffer mode differs in width from the first row, or lacks a
\* vector the first row has
ConvertWidthMismatch ==
    /\ TotalFrames(episodes) > 0
    /\ \E p \in Positions :
        LET frame == episodes[p[1]].frames[p[2] + 1]
        IN  \/ /\ FrameState(FirstFrame) # None
               /\ \/ FrameState(frame) = None
                  \/ Len(FrameState(frame)[1]) # Len(FrameState(FirstFrame)[1])
            \/ /\ FrameActionConvert(FirstFrame) # None
               /\ \/ FrameActionConvert(frame) = None
                  \/ Len(FrameActionConvert(frame)[1])
                        # Len(FrameActionConvert(FirstFrame)[1])

\* C5: in buffer mode, a batch in which a row's observation.state or action
\* vector differs in width from the first row's (or is missing while the
\* first row has it) ends with an error: no table is returned.
C5_ConvertWidthMismatchFails ==
    (ConvertDone /\ ConvertWidthMismatch) =>
        /\ convResponse.status_code # 200
        /\ "table" \notin DOMAIN convResponse

\* C6: in buffer mode, a batch without any frame ends with status 400,
\* which no other failure of the handler (status 500) uses.
C6_EmptyInputIs400 ==
    (ConvertDone /\ TotalFrames(episodes) = 0) => convResponse.status_code = 400

BundlePaths == {PARQUET_PATH, INFO_PATH, EPISODES_PATH, TASKS_PATH, README_PATH}

\* C7: every folder handed to upload_folder holds all five files of the
\* layout; for a batch without frames the shard is a table of zero rows and
\* info.total_frames is 0.
C7_BundleIsComplete ==
    Called("upload_folder") =>
        /\ BundlePaths \subseteq DOMAIN handed
        /\ TotalFrames(episodes) = 0 =>
            /\ handed[PARQUET_PATH].num_rows = 0
            /\ handed[INFO_PATH].total_frames = 0

\* C8: once whoami has failed, nothing but that call has happened and
\* nothing else happens: no create_repo, no workspace, no file write, no
\* upload_folder; the request ends with status 401.
C8_InvalidTokenStopsEverything ==
    Failed("whoami") =>
        /\ calls = <<Call("whoami", FALSE)>>
        /\ fsops = {}
        /\ tmpdir = NoTmpDir
        /\ handed = EmptyDict
        /\ pc \in {"except", "done"}
        /\ pc = "done" => response = [status_code |-> 401,
                                      detail |-> "Invalid HuggingFace token"]

\* C8 witness: the request has ended after a failed whoami
C8_Witness == Failed("whoami") /\ UploadDone /\ episodes # <<>>

MetaPaths == {INFO_PATH, EPISODES_PATH, TASKS_PATH, README_PATH}

\* C9 (as stated): whenever create_repo or upload_folder has failed, the
\* complete bundle exists locally when the request aborts and still exists
\* after the abort.
C9_AsStated ==
    (Failed("create_repo") \/ Failed("upload_folder")) =>
        /\ tmpdir.exists
        /\ MetaPaths \subseteq DOMAIN tmpdir.files

\* C9 (as amended): a failed create_repo aborts the request with status 500
\* before the workspace is created, so that no bundle exists then; a failed
\* upload_folder aborts it with status 500 at a point where the assembled
\* bundle exists locally (the four metadata and documentation files, and
\* the data shard when the batch has a frame), and the abort removes the
\* workspace: after it the bundle no longer exists locally.
C9_UpstreamFailure ==
    /\ Failed("create_repo") =>
        /\ fsops = {}
        /\ tmpdir = NoTmpDir
        /\ ~Called("upload_folder")
        /\ pc \in {"except", "done"}
        /\ pc = "done" => response.status_code = 500
    /\ Failed("upload_folder") =>
        /\ MetaPaths \subseteq DOMAIN handed
        /\ (PARQUET_PATH \in DOMAIN handed) = (TotalFrames(episodes) > 0)
        /\ pc \in {"exit_tmpdir", "except", "done"}
        /\ pc = "exit_tmpdir" => tmpdir.exists /\ tmpdir.files = handed
        /\ pc \in {"except", "done"} => tmpdir = NoTmpDir
        /\ pc = "done" => response.status_code = 500

\* C9 witness: the request has ended after upload_folder failed on the
\* bundle of a batch with frames
C9_Witness ==
    /\ Failed("upload_folder")
    /\ UploadDone
    /\ PARQUET_PATH \in DOMAIN handed

\* C10: on every exit path taken after the workspace was created, the
\* workspace and its files are gone when the request finishes.
C10_WorkspaceIsRemoved ==
    ("mkdtemp" \in fsops /\ pc \in {"return", "except", "done"}) =>
        /\ tmpdir = NoTmpDir
        /\ "rmtree" \in fsops

\* C10 witness: the request has ended with 500 after a file write failed
\* in the workspace, where files had been written before
C10_Witness ==
    /\ UploadDone
    /\ exc = Exception("OSError")
    /\ INFO_PATH \in fsops
    /\ response.status_code = 500

UploadFolderCalls == {i \in 1..Len(calls) : calls[i].op = "upload_folder"}

AssemblyErrors == {Exception("OSError"), Exception("ArrowInvalid")}

\* C11: upload_folder is called at most once per request and is the last
\* call the request makes; when it was called, no assembly step had failed
\* and every file the request assembles had been written: the four metadata
\* files, and the shard, encoded from the rows, when there are rows. After a
\* failed assembly step upload_folder is never called, and after a failed
\* upload_folder the request only leaves the workspace and reports.
C11_UploadOnceAfterAssembly ==
    /\ Cardinality(UploadFolderCalls) <= 1
    /\ Called("upload_folder") =>
        /\ calls[Len(calls)].op = "upload_folder"
        /\ exc \notin AssemblyErrors
        /\ MetaPaths \subseteq DOMAIN handed
        /\ \A path \in MetaPaths : path \in fsops
        /\ all_rows # <<>> =>
            /\ PARQUET_PATH \in DOMAIN handed
            /\ handed[PARQUET_PATH] = UploadTable(all_rows)
            /\ handed[PARQUET_PATH].ok
    /\ exc \in AssemblyErrors => ~Called("upload_folder")
    /\ Failed("upload_folder") => pc \in {"exit_tmpdir", "except", "done"}

C11_Witness ==
    /\ UploadSucceeded
    /\ Cardinality(UploadFolderCalls) = 1
    /\ PARQUET_PATH \in DOMAIN handed
    /\ Len(episodes) = 2

\* The folders there are to look at: the workspace and the folder handed to
\* upload_folder
Bundles == {tmpdir.files, handed}

BundlesWith(paths) == {b \in Bundles : paths \subseteq DOMAIN b}

\* The task string of an episode
TaskString(episode) ==
    IF "languageInstruction" \in DOMAIN episode.metadata
    THEN episode.metadata["languageInstruction"] ELSE "manipulation task"

TaskStrings == {TaskString(episodes[i]) : i \in 1..Len(episodes)}

\* C12: every tasks.jsonl written has one entry per distinct task string of
\* the batch (languageInstruction, or "manipulation task" when absent) and
\* no other entry, and its task_index values are pairwise distinct and are
\* exactly 0..n-1 for n distinct strings, in whatever order the set was
\* enumerated.
C12_TaskDictionaryIsDense ==
    \A b \in BundlesWith({TASKS_PATH}) :
        LET lines == b[TASKS_PATH]
            n == Cardinality(TaskStrings)
        IN /\ Len(lines) = n
           /\ {lines[i].task : i \in 1..Len(lines)} = TaskStrings
           /\ {lines[i].task_index : i \in 1..Len(lines)} = 0..(n - 1)
           /\ \A i, j \in 1..Len(lines) :
                i # j => /\ lines[i].task # lines[j].task
                         /\ lines[i].task_index # lines[j].task_index

\* Two distinct task strings, enumerated with the default text last
C12_Witness ==
    /\ Called("upload_folder")
    /\ TASKS_PATH \in DOMAIN handed
    /\ Cardinality(TaskStrings) = 2
    /\ Len(handed[TASKS_PATH]) = 2
    /\ handed[TASKS_PATH][2].task = "manipulation task"

\* The rows of table t whose episode_index is ep_idx
RowsOfEpisodeIndex(t, ep_idx) ==
    {r \in 1..t.num_rows : t.columns["episode_index"][r] = ep_idx}

\* One EpisodeMeta record per input episode, in input order
OneRecordPerEpisode(metas) ==
    /\ Len(metas) = Len(episodes)
    /\ \A i \in 1..Len(metas) :
        metas[i].episode_index = episodes[i].episodeIndex

\* C13 (as stated): there is one EpisodeMeta record per input episode, in
\* input order, and the length of every record is the number of table rows
\* whose episode_index is the record's episode_index.
C13_AsStated ==
    \A b \in BundlesWith({PARQUET_PATH, EPISODES_PATH}) :
        LET metas == b[EPISODES_PATH]
        IN /\ OneRecordPerEpisode(metas)
           /\ \A i \in 1..Len(metas) :
                metas[i].length =
                    Cardinality(RowsOfEpisodeIndex(b[PARQUET_PATH], metas[i].episode_index))

\* C13: there is one EpisodeMeta record per input episode, in input order,
\* and its length is the number of frames of that episode; when a table was
\* encoded, the rows of the episode at position i are the length rows after
\* the rows of the episodes before it, they carry the record's
\* episode_index, and the rows carrying an episode_index number the sum of
\* the lengths of the records with that episode_index.
C13_LengthIsFrameCount ==
    \A b \in BundlesWith({EPISODES_PATH}) :
        LET metas == b[EPISODES_PATH]
        IN /\ OneRecordPerEpisode(metas)
           /\ \A i \in 1..Len(metas) : metas[i].length = Len(episodes[i].frames)
           /\ (PARQUET_PATH \in DOMAIN b) = (LengthSum(metas) > 0)
           /\ PARQUET_PATH \in DOMAIN b =>
                LET t == b[PARQUET_PATH]
                IN /\ t.num_rows = LengthSum(metas)
                   /\ \A i \in 1..Len(metas) :
                        /\ \A k \in 1..metas[i].length :
                            t.columns["episode_index"][Offset(i) + k] =
                                metas[i].episode_index
                        /\ Cardinality(RowsOfEpisodeIndex(t, metas[i].episode_index)) =
                            SumSeq([j \in 1..Len(metas) |->
                                IF metas[j].episode_index = metas[i].episode_index
                                THEN metas[j].length ELSE 0])

\* Two episodes of one frame each under the same episodeIndex
C13_Witness ==
    /\ {PARQUET_PATH, EPISODES_PATH} \subseteq DOMAIN handed
    /\ Len(episodes) = 2
    /\ episodes[1].episodeIndex = episodes[2].episodeIndex
    /\ \A i \in 1..2 : handed[EPISODES_PATH][i].length = 1
    /\ handed[PARQUET_PATH].num_rows = 2

\* The rows have been projected from the batch
Projected == "mkdtemp" \in fsops

\* C14: in directory mode the row projected from a frame carries, as action,
\* the frame's action.jointPositions when that key is present, otherwise its
\* action.targetPositions when that key is present, and no action field
\* otherwise; in a table with an action column the cell of that row is that
\* vector in float32.
C14_ActionFallback ==
    /\ Projected =>
        /\ Len(all_rows) = TotalFrames(episodes)
        /\ \A p \in Positions :
            LET row == all_rows[Offset(p[1]) + p[2] + 1]
                frame == episodes[p[1]].frames[p[2] + 1]
            IN  IF HasKey(frame, "action", "jointPositions")
                THEN /\ "action" \in DOMAIN row
                     /\ row["action"] = frame["action"]["jointPositions"]
                ELSE IF HasKey(frame, "action", "targetPositions")
                THEN /\ "action" \in DOMAIN row
                     /\ row["action"] = frame["action"]["targetPositions"]
                ELSE "action" \notin DOMAIN row
    /\ \A t \in DirTables :
        "action" \in DOMAIN t.columns =>
            \A p \in Positions :
                LET frame == episodes[p[1]].frames[p[2] + 1]
                IN  HasKey(frame, "action", "jointPositions") =>
                        t.columns["action"][Offset(p[1]) + p[2] + 1] =
                            Narrowed(Some(frame["action"]["jointPositions"]))

\* A frame with both keys after a frame with targetPositions only, encoded
C14_Witness ==
    /\ Projected
    /\ Len(episodes) = 1
    /\ Len(episodes[1].frames) = 2
    /\ ~HasKey(episodes[1].frames[1], "action", "jointPositions")
    /\ HasKey(episodes[1].frames[1], "action", "targetPositions")
    /\ HasKey(episodes[1].frames[2], "action", "jointPositions")
    /\ HasKey(episodes[1].frames[2], "action", "targetPositions")
    /\ \E t \in DirTables : "action" \in DOMAIN t.columns

\* Two ratios are the same number
SameRatio(a, b) == a.num * b.den = b.num * a.den

\* The tables of both modes
AllTables ==
    DirTables \cup
    (IF ConvertDone /\ convResponse.status_code = 200 THEN {convResponse.table} ELSE {})

\* C15: in every table of either mode, the timestamp of the row of frame k
\* (0-based) of an episode is the frame's own timestamp when it has one and
\* k/30 otherwise, whatever fps the dataset metadata declares.
C15_TimestampDefault ==
    \A t \in AllTables :
        \A p \in Positions :
            LET cell == t.columns["timestamp"][Offset(p[1]) + p[2] + 1]
                frame == episodes[p[1]].frames[p[2] + 1]
            IN  IF "timestamp" \in DOMAIN frame
                THEN cell = frame["timestamp"]
                ELSE SameRatio(cell, Ratio(p[2], 30))

\* A second frame without timestamp in a dataset declared at 10 fps, after
\* a frame with its own timestamp, in directory mode
C15_Witness ==
    /\ metadata.fps = 10
    /\ Len(episodes) = 1
    /\ Len(episodes[1].frames) = 2
    /\ "timestamp" \in DOMAIN episodes[1].frames[1]
    /\ "timestamp" \notin DOMAIN episodes[1].frames[2]
    /\ \E t \in DirTables :
        /\ t.columns["timestamp"][1] = Ratio(7, 2)
        /\ t.columns["timestamp"][2] = Ratio(1, 30)

\* C16: in every info.json written, total_episodes is the number of episodes
\* of the request and the only split is train = "0:N" with N that number,
\* whatever totalEpisodes and totalFrames the dataset metadata declares.
C16_EpisodeCountFromList ==
    \A b \in BundlesWith({INFO_PATH}) :
        LET info == b[INFO_PATH]
        IN /\ info.total_episodes = Len(episodes)
           /\ DOMAIN info.splits = {"train"}
           /\ info.splits.train = <<0, Len(episodes)>>

\* Two episodes uploaded under metadata that declares seven
C16_Witness ==
    /\ INFO_PATH \in DOMAIN handed
    /\ Len(episodes) = 2
    /\ metadata.totalEpisodes = 7
    /\ metadata.totalFrames = 7
    /\ handed[INFO_PATH].total_episodes = 2

\* C17: every row of every directory-mode table has task_index 0, however
\* many distinct task strings the batch has.
C17_TaskIndexIsZero ==
    \A t \in DirTables :
        /\ Len(t.columns["task_index"]) = t.num_rows
        /\ \A r \in 1..t.num_rows : t.columns["task_index"][r] = 0

\* Two episodes with different task strings, a row each
C17_Witness ==
    /\ Cardinality(TaskStrings) = 2
    /\ \A i \in 1..Len(episodes) : Len(episodes[i].frames) = 1
    /\ PARQUET_PATH \in DOMAIN handed
    /\ handed[PARQUET_PATH].columns["task_index"] = <<0, 0>>

\* C18: in every folder that holds the shard, episodes.jsonl and
\* tasks.jsonl, the task_index of every table row is the task_index of an
\* entry of tasks.jsonl, and the task text of that entry is one of the tasks
\* listed in the EpisodeMeta record of the episode the row was projected
\* from.
C18_TaskReferencesAgree ==
    \A b \in BundlesWith({PARQUET_PATH, EPISODES_PATH, TASKS_PATH}) :
        LET t == b[PARQUET_PATH]
            metas == b[EPISODES_PATH]
            lines == b[TASKS_PATH]
        IN \A p \in Positions :
            LET task_index == t.columns["task_index"][Offset(p[1]) + p[2] + 1]
                listed == {metas[p[1]].tasks[j] : j \in 1..Len(metas[p[1]].tasks)}
            IN  /\ \E e \in 1..Len(lines) : lines[e].task_index = task_index
                /\ \A e \in 1..Len(lines) :
                    lines[e].task_index = task_index => lines[e].task \in listed

\* The width of a vector column of table t
ColumnWidth(t, name) == TypeOf(t.schema, name).list_size

\* C19: in every folder that holds the shard and info.json, a vector
\* feature (observation.state, action) is declared in info.features exactly
\* when the table has that column, and the declared shape is the one-element
\* list of the column's fixed width.
C19_FeaturesMatchTable ==
    \A b \in BundlesWith({PARQUET_PATH, INFO_PATH}) :
        LET t == b[PARQUET_PATH]
            features == b[INFO_PATH].features
        IN \A name \in VectorFields :
            /\ (name \in DOMAIN features) = (name \in DOMAIN t.columns)
            /\ name \in DOMAIN t.columns =>
                features[name].shape = <<ColumnWidth(t, name)>>

====
